---- MODULE Spec2Model ----
(***************************************************************************)
(* LiftTok (adam-paul/lifttok2): the pose capture and playback             *)
(* synchronisation of src/App.js, with the native PoseDetectionModule      *)
(* whose Kotlin source is the second half of src/firebase.js.              *)
(*                                                                         *)
(* Several state machines share this module.                               *)
(*   Spec          RecordScreen: the 200 ms frame sampling loop, the       *)
(*                 memory-pressure backoff, toggleRecording and            *)
(*                 the upload callback onRecordingFinished.                *)
(*   SpecThumbnail RecordScreen: the recording lifecycle with the          *)
(*                 thumbnail timer of toggleRecording.                     *)
(*   SpecPlayback  VideoItem: onProgress / updatePoseData over a           *)
(*                 persisted timeline.                                     *)
(*   SpecOverlay   the landmark transforms and WireframeOverlay.           *)
(*   SpecNative    PoseDetectionModule.cleanupCache and its rate limit.    *)
(*   SpecEarlier   the sampling effect of the earlier RecordScreen         *)
(*                 (src/unnamed/part_000).                                 *)
(*                                                                         *)
(* JavaScript is single threaded: every action below is one run of a       *)
(* handler up to its next await; the continuation after an await is        *)
(* another action.  A React state update re-renders before the next        *)
(* handler runs, so an action that calls setRecording / setIsFront also    *)
(* re-runs the effects whose dependencies changed; callbacks that are      *)
(* already in flight keep the values their closure captured.               *)
(*                                                                         *)
(* Times are milliseconds (Date.now()).                                    *)
(***************************************************************************)
EXTENDS Integers, Sequences, FiniteSets, TLC

----------------------------------------------------------------------------
(* Bounds of the model *)

\* Date.now() in the initial state
StartClock == 1000
\* Date.now() never exceeds this value
MaxClock == 1200
\* number of recordings that may be started
MaxSessions == 2
\* length of recordedPoseData
MaxSamples == 2
\* value of skippedFramesRef.current
MaxSkipped == 4
\* frame callbacks awaiting takePhoto/detectPose at one time
MaxFlights == 2
\* length of a persisted timeline (playback)
MaxLen == 3
\* number of landmark names the transformed and drawn sets range over
MaxLandmarks == 2

----------------------------------------------------------------------------
(* Program constants *)

\* src/App.js:514  now - lastProcessedTime.current < 200
MinGapMs == 200
\* src/App.js:453  const maxSkippedFrames = 3
maxSkippedFrames == 3

----------------------------------------------------------------------------
(* JavaScript values *)

JsNull == [type |-> "null"]
JsUndefined == [type |-> "undefined"]
JsArray(items) == [type |-> "array", items |-> items]
\* a landmark set with n entries, as the live overlay's state keeps it
LandmarkSet(n) == [type |-> "object", size |-> n]

\* Truthiness of obj.field for a field that holds a boolean when present:
\* a missing field reads as undefined, which is falsy.
Truthy(obj, field) == field \in DOMAIN obj /\ obj[field]

----------------------------------------------------------------------------
VARIABLES
  \* ---- RecordScreen (src/App.js:434-784) ----
  now,                 \* Date.now()
  focused,             \* the screen has navigation focus
  recording,           \* useState(false), App.js:437
  uploading,           \* useState(false), App.js:438
  cleanupInterval,     \* cleanupInterval.current holds a live timer, App.js:445
  lastProcessedTime,   \* lastProcessedTime.current, App.js:446
  processingFrame,     \* processingFrame.current, App.js:447
  memoryPressureRef,   \* memoryPressureRef.current, App.js:451
  skippedFramesRef,    \* skippedFramesRef.current, App.js:452
  recordedPoseData,    \* recordedPoseData.current, App.js:454
  recordingStartTime,  \* recordingStartTime.current, 0 for null, App.js:455
  frameInterval,       \* the sampling effect's timer and what its closure captured
  flights,             \* frame callbacks suspended at takePhoto / detectPose
  cleanupPending,      \* some cleanupCache() call has not been settled by the native module
  startsAwaiting,      \* toggleRecording start branches suspended at App.js:640
  camRecording,        \* the camera's active video recording, 0 for none
  finished,            \* stopped videos whose onRecordingFinished has not run
  uploads,             \* onRecordingFinished callbacks suspended in the upload
  banners,             \* pending 1500 ms timers of App.js:670
  docs,                \* documents written by addDoc
  sessionCount,        \* number of recordings started so far (names the videos)
  backoffCleanups,     \* cleanups issued by App.js:522 since the flag was last clear
  poseData,            \* useState(null), App.js:441: the live overlay's landmark set
  isPoseDetected,      \* useState(false), App.js:442
  uploadThumbnail,     \* uploadThumbnail.current, App.js:711: whose thumbnail, 0 for null
  thumbnailTimers,     \* 500 ms timers of App.js:687 whose callback has not finished
  \* ---- VideoItem (src/App.js:130-226) ----
  item,                \* the video record shown by the item
  isActive,            \* prop isActive
  videoProgress,       \* videoProgress.current, App.js:135
  currentPoseData,     \* useState(null), App.js:133: index of the shown sample, 0 for null
  isBuffering,         \* useState(true), App.js:131
  videoDimensions,     \* useState(null), App.js:132
  \* ---- landmark transform and WireframeOverlay (src/App.js:37-153, 560-573) ----
  dimensions,          \* Dimensions.get('window'), App.js:134 and 448
  landmarkSource,      \* the landmarks handed to a transform, with their source dimensions
  transformedLandmarks,\* what the transform returned, null before the first call
  drawn,               \* what WireframeOverlay rendered for transformedLandmarks
  \* ---- PoseDetectionModule.cleanupCache (src/firebase.js:42, 69-108) ----
  currentTime,         \* System.currentTimeMillis()
  lastCleanupTime,     \* private var lastCleanupTime, firebase.js:42
  cacheFiles,          \* lastModified() of the mrousavy*.jpg files of cacheDir
  cleanupPromise,      \* how the promise of the last cleanupCache call was settled
  lastRealCleanup      \* bookkeeping: when the cache was last scanned, 0 for never

recordVars == <<now, focused, recording, uploading, cleanupInterval,
                lastProcessedTime, processingFrame, memoryPressureRef,
                skippedFramesRef, recordedPoseData, recordingStartTime,
                frameInterval, flights, cleanupPending, startsAwaiting,
                camRecording, finished, uploads, banners, docs, sessionCount,
                backoffCleanups, poseData, isPoseDetected, uploadThumbnail,
                thumbnailTimers>>
playVars == <<item, isActive, videoProgress, currentPoseData, isBuffering,
              videoDimensions>>
drawVars == <<dimensions, landmarkSource, transformedLandmarks, drawn>>
nativeVars == <<currentTime, lastCleanupTime, cacheFiles, cleanupPromise,
                lastRealCleanup>>
vars == <<recordVars, playVars, drawVars, nativeVars>>


----------------------------------------------------------------------------
(* Native module: PoseDetectionModule (Kotlin, second half of src/firebase.js) *)

\* What cleanupCache resolves with: deletedFiles and skipped, nothing else
\* (firebase.js:74-77 when rate limited, firebase.js:96-100 otherwise).
NativeCleanupResponses ==
  { [deletedFiles |-> 0, skipped |-> TRUE],
    [deletedFiles |-> 0, skipped |-> FALSE],
    [deletedFiles |-> 1, skipped |-> FALSE] }

\* What detectPose resolves with (firebase.js:134-155): the success listener
\* always attaches a landmarks map, empty when ML Kit found no pose, and never
\* a memoryWarning field.  landmarks is the number of entries of the map.
NativeDetectResults ==
  { [poseDetected |-> TRUE,  landmarks |-> 1],
    [poseDetected |-> FALSE, landmarks |-> 0] }

----------------------------------------------------------------------------
(* RecordScreen helpers *)

\* App.js:509-603: the effect body installs a fresh interval whose callback
\* closes over the `recording` of the render that created it.
FrameEffect(rec) == [active |-> TRUE, recording |-> rec]

\* App.js:514: the single-flight and minimum-gap gate of a tick taken at t.
SkipTick_NoBusyFlag(t) == t - lastProcessedTime < MinGapMs
SkipTick_NoMinGap(t) == processingFrame
SkipTick(t) == processingFrame \/ t - lastProcessedTime < MinGapMs

\* App.js:598: setPoseData(null) in the catch block, whatever the overlay showed
OverlayAfterError_Stale(shown) == shown
OverlayAfterError(shown) == JsNull

\* App.js:638: recordedPoseData.current = []
ClearedTimeline(old) == << >>

\* App.js:577: const timestamp = now - (recordingStartTime.current || now)
SampleTimestamp(t) == t - (IF recordingStartTime # 0 THEN recordingStartTime ELSE t)

\* App.js:578-585: the sample pushed by the frame callback f.  session is
\* bookkeeping: the video the camera was recording when the callback took its
\* frame, 0 when it recorded none.
PoseSample(f) == [timestamp |-> SampleTimestamp(f.now), session |-> f.video]

\* App.js:666: recordedPoseData.current.length > 0 ? recordedPoseData.current : null
PoseDataField_NoTernary(pd) == JsArray(pd)
PoseDataField(pd) == IF Len(pd) > 0 THEN JsArray(pd) ELSE JsNull

\* App.js:659: await uploadThumbnail.current: null while the ref is null, else
\* the download URL of the thumbnail the ref's promise stands for, named by
\* the recording whose timer captured it.
ThumbnailUrl(ref) ==
  IF ref = 0 THEN JsNull ELSE [type |-> "url", thumbnailOf |-> ref]

\* App.js:659-667: the object literal handed to addDoc for video v.
VideoDoc(v) ==
  [videoUrl |-> v, thumbnailUrl |-> ThumbnailUrl(uploadThumbnail),
   createdAt |-> now, poseData |-> PoseDataField(recordedPoseData)]

\* App.js:461: memoryPressureRef.current && response.success
CleanupClears(response) == memoryPressureRef /\ Truthy(response, "success")

\* Removal of the i-th suspended frame callback.
Without(seq, i) == SubSeq(seq, 1, i - 1) \o SubSeq(seq, i + 1, Len(seq))

\* A state update followed by the render it causes: the sampling effect
\* (deps [device, cameraRef.current, recording], App.js:609) is torn down and
\* set up again when recording or the device changed; the teardown clears
\* the interval and calls cleanupCache() (App.js:605-608): the callbacks that
\* interval started and that are still suspended now belong to a cleared
\* interval.  calls tells whether the handler itself calls cleanupCache().
Render(newRecording, deviceChanged, calls) ==
  LET changed == newRecording # recording \/ deviceChanged
  IN /\ recording' = newRecording
     /\ frameInterval' = IF changed THEN FrameEffect(newRecording) ELSE frameInterval
     /\ flights' = [i \in DOMAIN flights |->
                      [flights[i] EXCEPT !.cleared = @ \/ changed]]
     /\ cleanupPending' = (cleanupPending \/ calls \/ changed)

----------------------------------------------------------------------------
(* RecordScreen: initial state, after the first render with a camera device *)

InitPlayIdle ==
  /\ item = [poseData |-> JsNull]
  /\ isActive = FALSE
  /\ videoProgress = 0
  /\ currentPoseData = 0
  /\ isBuffering = TRUE
  /\ videoDimensions = JsNull

InitRecord ==
  /\ now = StartClock
  /\ focused = TRUE
  /\ recording = FALSE
  /\ uploading = FALSE
  /\ cleanupInterval = TRUE
  /\ lastProcessedTime = 0
  /\ processingFrame = FALSE
  /\ memoryPressureRef = FALSE
  /\ skippedFramesRef = 0
  /\ recordedPoseData = << >>
  /\ recordingStartTime = 0
  /\ frameInterval = [active |-> TRUE, recording |-> FALSE]
  /\ flights = << >>
  /\ cleanupPending = FALSE
  /\ startsAwaiting = {}
  /\ camRecording = 0
  /\ finished = {}
  /\ uploads = {}
  /\ banners = 0
  /\ docs = {}
  /\ sessionCount = 0
  /\ backoffCleanups = 0
  /\ poseData = JsNull
  /\ isPoseDetected = FALSE
  /\ uploadThumbnail = 0
  /\ thumbnailTimers = {}

\* The native module as it is constructed, the cache directory empty.
InitNativeIdle ==
  /\ currentTime = 0
  /\ lastCleanupTime = 0
  /\ cacheFiles = {}
  /\ cleanupPromise = JsNull
  /\ lastRealCleanup = 0

\* No landmark set has been transformed or drawn.
InitDrawIdle ==
  /\ dimensions = [width |-> 0, height |-> 0]
  /\ landmarkSource = JsNull
  /\ transformedLandmarks = JsNull
  /\ drawn = JsNull

Init == InitRecord /\ InitPlayIdle /\ InitDrawIdle /\ InitNativeIdle

----------------------------------------------------------------------------
(* The clock, observed once per sampling period *)

Advance ==
  /\ now + MinGapMs <= MaxClock
  /\ now' = now + MinGapMs
  /\ UNCHANGED <<focused, recording, uploading, cleanupInterval,
                 lastProcessedTime, processingFrame, memoryPressureRef,
                 skippedFramesRef, recordedPoseData, recordingStartTime,
                 frameInterval, flights, cleanupPending, startsAwaiting,
                 camRecording, finished, uploads, banners, docs, sessionCount,
                 backoffCleanups, poseData, isPoseDetected, uploadThumbnail, thumbnailTimers,
                 playVars, drawVars, nativeVars>>

----------------------------------------------------------------------------
(* The frame sampling callback, App.js:512-603 *)

\* The interval of App.js:512/603 is live.  A timer callback runs when the
\* JS thread gets to it: it may be late by any amount, and late callbacks
\* bunch, so the model leaves the tick times to the scheduler and the 200 ms
\* spacing to the gate of App.js:514.
TickDue == frameInterval.active

\* App.js:513-516: busy, or too soon after the last processed frame.
TickSkipped ==
  /\ TickDue
  /\ SkipTick(now)
  /\ UNCHANGED <<now, focused, recording, uploading, cleanupInterval, frameInterval,
                 lastProcessedTime, processingFrame, memoryPressureRef,
                 skippedFramesRef, recordedPoseData, recordingStartTime,
                 flights, cleanupPending, startsAwaiting,
                 camRecording, finished, uploads, banners, docs, sessionCount,
                 backoffCleanups, poseData, isPoseDetected, uploadThumbnail, thumbnailTimers,
                 playVars, drawVars, nativeVars>>

\* App.js:518-525: under memory pressure the frame is skipped and counted;
\* from the third skipped frame on, cleanupCache() is called.
TickBackoff ==
  /\ TickDue
  /\ ~SkipTick(now)
  /\ memoryPressureRef
  /\ skippedFramesRef < MaxSkipped
  /\ skippedFramesRef' = skippedFramesRef + 1
  /\ IF skippedFramesRef' >= maxSkippedFrames
       THEN /\ cleanupPending' = TRUE
            /\ backoffCleanups' = backoffCleanups + 1
       ELSE UNCHANGED <<cleanupPending, backoffCleanups>>
  /\ UNCHANGED <<now, focused, recording, uploading, cleanupInterval, frameInterval,
                 lastProcessedTime, processingFrame, memoryPressureRef,
                 recordedPoseData, recordingStartTime,
                 flights, startsAwaiting,
                 camRecording, finished, uploads, banners, docs, sessionCount,
                 poseData, isPoseDetected, uploadThumbnail, thumbnailTimers,
                 playVars, drawVars, nativeVars>>

\* App.js:527-539: the busy flag is raised and takePhoto is awaited.
TickCapture ==
  /\ TickDue
  /\ ~SkipTick(now)
  /\ ~memoryPressureRef
  /\ Len(flights) < MaxFlights
  /\ processingFrame' = TRUE
  /\ flights' = Append(flights, [pc |-> "takePhoto", now |-> now,
                                 recording |-> frameInterval.recording,
                                 video |-> camRecording,
                                 cleared |-> FALSE])
  /\ UNCHANGED <<now, focused, recording, uploading, cleanupInterval, frameInterval,
                 lastProcessedTime, memoryPressureRef,
                 skippedFramesRef, recordedPoseData, recordingStartTime,
                 cleanupPending, startsAwaiting,
                 camRecording, finished, uploads, banners, docs, sessionCount,
                 backoffCleanups, poseData, isPoseDetected, uploadThumbnail, thumbnailTimers,
                 playVars, drawVars, nativeVars>>

\* App.js:541-555: takePhoto resolved with a path; detectPose is awaited.
PhotoTaken(i) ==
  /\ flights[i].pc = "takePhoto"
  /\ flights' = [flights EXCEPT ![i].pc = "detectPose"]
  /\ UNCHANGED <<now, focused, recording, uploading, cleanupInterval,
                 lastProcessedTime, processingFrame, memoryPressureRef,
                 skippedFramesRef, recordedPoseData, recordingStartTime,
                 frameInterval, cleanupPending, startsAwaiting,
                 camRecording, finished, uploads, banners, docs, sessionCount,
                 backoffCleanups, poseData, isPoseDetected, uploadThumbnail, thumbnailTimers,
                 playVars, drawVars, nativeVars>>

\* App.js:541 `if (!frame.path) return;` then the finally block of App.js:600-602.
PhotoWithoutPath_NoFinally(i) ==
  /\ flights[i].pc = "takePhoto"
  /\ flights' = Without(flights, i)
  /\ UNCHANGED <<now, focused, recording, uploading, cleanupInterval,
                 lastProcessedTime, processingFrame, memoryPressureRef,
                 skippedFramesRef, recordedPoseData, recordingStartTime,
                 frameInterval, cleanupPending, startsAwaiting,
                 camRecording, finished, uploads, banners, docs, sessionCount,
                 backoffCleanups, poseData, isPoseDetected, uploadThumbnail,
                 thumbnailTimers, playVars, drawVars, nativeVars>>

PhotoWithoutPath(i) ==
  /\ flights[i].pc = "takePhoto"
  /\ flights' = Without(flights, i)
  /\ processingFrame' = FALSE
  /\ UNCHANGED <<now, focused, recording, uploading, cleanupInterval,
                 lastProcessedTime, memoryPressureRef,
                 skippedFramesRef, recordedPoseData, recordingStartTime,
                 frameInterval, cleanupPending, startsAwaiting,
                 camRecording, finished, uploads, banners, docs, sessionCount,
                 backoffCleanups, poseData, isPoseDetected, uploadThumbnail, thumbnailTimers,
                 playVars, drawVars, nativeVars>>

\* App.js:595-602: takePhoto or detectPose rejected; catch, then finally.
FrameRejected(i) ==
  /\ flights[i].pc \in {"takePhoto", "detectPose"}
  /\ flights' = Without(flights, i)
  /\ poseData' = OverlayAfterError(poseData)
  /\ isPoseDetected' = FALSE
  /\ memoryPressureRef' = TRUE
  /\ processingFrame' = FALSE
  /\ UNCHANGED <<now, focused, recording, uploading, cleanupInterval,
                 lastProcessedTime,
                 skippedFramesRef, recordedPoseData, recordingStartTime,
                 frameInterval, cleanupPending, startsAwaiting,
                 camRecording, finished, uploads, banners, docs, sessionCount,
                 backoffCleanups, uploadThumbnail, thumbnailTimers,
                 playVars, drawVars, nativeVars>>

\* App.js:560 `if (result.landmarks)`: an object is truthy, an empty one too;
\* a missing field is undefined, which is falsy.
HasLandmarks(result) == "landmarks" \in DOMAIN result

\* App.js:557-594 and 600-602: detectPose resolved with result.  With
\* result.landmarks truthy the transformed set is published (App.js:573) and
\* the sample is pushed when the closure's `recording` is true (App.js:576);
\* otherwise the overlay is set to null (App.js:588).
\* result.memoryWarning is undefined, so App.js:591-594 is skipped.
PoseDetected(i, result) ==
  /\ flights[i].pc = "detectPose"
  /\ ~Truthy(result, "memoryWarning")
  /\ lastProcessedTime' = flights[i].now
  /\ isPoseDetected' = result.poseDetected
  /\ poseData' = IF HasLandmarks(result) THEN LandmarkSet(result.landmarks) ELSE JsNull
  /\ IF HasLandmarks(result) /\ flights[i].recording
       THEN /\ Len(recordedPoseData) < MaxSamples
            /\ recordedPoseData' = Append(recordedPoseData, PoseSample(flights[i]))
       ELSE UNCHANGED recordedPoseData
  /\ flights' = Without(flights, i)
  /\ processingFrame' = FALSE
  /\ UNCHANGED <<now, focused, recording, uploading, cleanupInterval,
                 memoryPressureRef,
                 skippedFramesRef, recordingStartTime,
                 frameInterval, cleanupPending, startsAwaiting,
                 camRecording, finished, uploads, banners, docs, sessionCount,
                 backoffCleanups, uploadThumbnail, thumbnailTimers,
                 playVars, drawVars, nativeVars>>


----------------------------------------------------------------------------
(* cleanupCache, App.js:458-469 *)

\* How the native call can settle: resolved with a response, or rejected
\* (firebase.js:105-107).
CleanupOutcomes ==
  { [ok |-> TRUE, response |-> r] : r \in NativeCleanupResponses }
    \cup { [ok |-> FALSE] }

\* The body of cleanupCache once the native call has settled with outcome o.
CleanupCacheSettled_CounterReset(o) ==
  /\ memoryPressureRef' = IF ~o.ok THEN TRUE ELSE memoryPressureRef
  /\ skippedFramesRef' = 0
  /\ backoffCleanups' = 0

CleanupCacheSettled(o) ==
  LET cleared == o.ok /\ CleanupClears(o.response)
  IN /\ memoryPressureRef' = IF ~o.ok THEN TRUE
                             ELSE IF cleared THEN FALSE ELSE memoryPressureRef
     /\ skippedFramesRef' = IF cleared THEN 0 ELSE skippedFramesRef
     /\ backoffCleanups' = IF cleared THEN 0 ELSE backoffCleanups

\* A cleanupCache() nobody waits for, or whose caller does nothing afterwards,
\* settles (App.js:489, 494, 501, 522, 607, 625, 636).  Any number of such
\* calls can be outstanding and they are alike, so the model keeps whether
\* there is one: after one of them has settled there may or may not be more.
CleanupResolved(r) ==
  /\ cleanupPending
  /\ cleanupPending' \in BOOLEAN
  /\ CleanupCacheSettled([ok |-> TRUE, response |-> r])
  /\ UNCHANGED <<now, focused, recording, uploading, cleanupInterval,
                 lastProcessedTime, processingFrame,
                 recordedPoseData, recordingStartTime,
                 frameInterval, flights, startsAwaiting,
                 camRecording, finished, uploads, banners, docs, sessionCount,
                 poseData, isPoseDetected, uploadThumbnail, thumbnailTimers,
                 playVars, drawVars, nativeVars>>

CleanupRejected ==
  /\ cleanupPending
  /\ cleanupPending' \in BOOLEAN
  /\ CleanupCacheSettled([ok |-> FALSE])
  /\ UNCHANGED <<now, focused, recording, uploading, cleanupInterval,
                 lastProcessedTime, processingFrame,
                 recordedPoseData, recordingStartTime,
                 frameInterval, flights, startsAwaiting,
                 camRecording, finished, uploads, banners, docs, sessionCount,
                 poseData, isPoseDetected, uploadThumbnail, thumbnailTimers,
                 playVars, drawVars, nativeVars>>

\* App.js:494: setInterval(cleanupCache, 5000)
PeriodicCleanup ==
  /\ cleanupInterval
  /\ cleanupPending' = TRUE
  /\ UNCHANGED <<now, focused, recording, uploading, cleanupInterval,
                 lastProcessedTime, processingFrame, memoryPressureRef,
                 skippedFramesRef, recordedPoseData, recordingStartTime,
                 frameInterval, flights, startsAwaiting,
                 camRecording, finished, uploads, banners, docs, sessionCount,
                 backoffCleanups, poseData, isPoseDetected, uploadThumbnail, thumbnailTimers,
                 playVars, drawVars, nativeVars>>

----------------------------------------------------------------------------
(* toggleRecording, App.js:629-708.  The record button is disabled while    *)
(* uploading (App.js:779).                                                  *)

\* App.js:637-640: the start branch up to `await cleanupCache()`.
ToggleRecordingStart ==
  /\ focused /\ ~uploading /\ ~recording
  /\ sessionCount < MaxSessions
  /\ sessionCount' = sessionCount + 1
  /\ recordedPoseData' = ClearedTimeline(recordedPoseData)
  /\ recordingStartTime' = now
  /\ startsAwaiting' = startsAwaiting \cup {sessionCount'}
  /\ UNCHANGED <<now, focused, recording, uploading, cleanupInterval,
                 lastProcessedTime, processingFrame, memoryPressureRef,
                 skippedFramesRef,
                 frameInterval, flights, cleanupPending,
                 camRecording, finished, uploads, banners, docs,
                 backoffCleanups, poseData, isPoseDetected, uploadThumbnail, thumbnailTimers,
                 playVars, drawVars, nativeVars>>

\* App.js:640-703: the awaited cleanupCache settled with o; setRecording(true)
\* and startRecording follow, and then the 500 ms thumbnail timer is set.  The
\* camera records one video at a time: a startRecording while it records
\* fails, and both the catch of App.js:705 and onRecordingError (App.js:679)
\* answer with setRecording(false); the timer is then not set.
ToggleRecordingStarted(s, o) ==
  /\ s \in startsAwaiting
  /\ startsAwaiting' = startsAwaiting \ {s}
  /\ CleanupCacheSettled(o)
  /\ camRecording' = IF camRecording = 0 THEN s ELSE camRecording
  /\ thumbnailTimers' = IF camRecording = 0 THEN thumbnailTimers \cup {s}
                                            ELSE thumbnailTimers
  /\ Render(camRecording = 0, FALSE, FALSE)
  /\ UNCHANGED <<now, focused, uploading, cleanupInterval,
                 lastProcessedTime, processingFrame,
                 recordedPoseData, recordingStartTime,
                 finished, uploads, banners, docs, sessionCount,
                 poseData, isPoseDetected, uploadThumbnail,
                 playVars, drawVars, nativeVars>>

\* App.js:633-636: the stop branch.  stopRecording hands the finished video to
\* onRecordingFinished later; when it resolves, cleanupCache() is called.  A
\* stopRecording without an active recording rejects (catch, App.js:705-707).
ToggleRecordingStop ==
  /\ focused /\ ~uploading /\ recording
  /\ Render(FALSE, FALSE, camRecording # 0)
  /\ camRecording' = 0
  /\ finished' = IF camRecording # 0 THEN finished \cup {camRecording} ELSE finished
  /\ UNCHANGED <<now, focused, uploading, cleanupInterval,
                 lastProcessedTime, processingFrame, memoryPressureRef,
                 skippedFramesRef, recordedPoseData, recordingStartTime,
                 startsAwaiting,
                 uploads, banners, docs, sessionCount,
                 backoffCleanups, poseData, isPoseDetected, uploadThumbnail, thumbnailTimers,
                 playVars, drawVars, nativeVars>>

\* App.js:624-627: cleanupCache(), then setIsFront(!isFront): useCameraDevice
\* (App.js:443) returns the other device, which is all the model keeps of isFront.
ToggleCamera ==
  /\ focused
  /\ Render(recording, TRUE, TRUE)
  /\ UNCHANGED <<now, focused, uploading, cleanupInterval,
                 lastProcessedTime, processingFrame, memoryPressureRef,
                 skippedFramesRef, recordedPoseData, recordingStartTime,
                 startsAwaiting,
                 camRecording, finished, uploads, banners, docs, sessionCount,
                 backoffCleanups, poseData, isPoseDetected, uploadThumbnail, thumbnailTimers,
                 playVars, drawVars, nativeVars>>

----------------------------------------------------------------------------
(* Navigation blur, App.js:471-490 and 719-725.  The listener is the         *)
(* cleanupRecord of the first render (deps [navigation]), whose `recording`  *)
(* is false: App.js:472-478 never runs.                                      *)

Blur ==
  /\ focused
  /\ focused' = FALSE
  /\ Render(FALSE, FALSE, TRUE)
  /\ cleanupInterval' = FALSE
  /\ memoryPressureRef' = FALSE
  /\ skippedFramesRef' = 0
  /\ backoffCleanups' = 0
  /\ poseData' = JsNull
  /\ isPoseDetected' = FALSE
  /\ UNCHANGED <<now, uploading,
                 lastProcessedTime, processingFrame,
                 recordedPoseData, recordingStartTime,
                 startsAwaiting,
                 camRecording, finished, uploads, banners, docs, sessionCount,
                 uploadThumbnail, thumbnailTimers,
                 playVars, drawVars, nativeVars>>

Focus ==
  /\ ~focused
  /\ focused' = TRUE
  /\ UNCHANGED <<now, recording, uploading, cleanupInterval,
                 lastProcessedTime, processingFrame, memoryPressureRef,
                 skippedFramesRef, recordedPoseData, recordingStartTime,
                 frameInterval, flights, cleanupPending, startsAwaiting,
                 camRecording, finished, uploads, banners, docs, sessionCount,
                 backoffCleanups, poseData, isPoseDetected, uploadThumbnail, thumbnailTimers,
                 playVars, drawVars, nativeVars>>

----------------------------------------------------------------------------
(* The thumbnail timer, App.js:686-703.  Its callback runs whether or not    *)
(* the recording that set it is still going on.                             *)

\* App.js:688-699: the photo was taken and uploaded; the ref now holds the
\* promise of this thumbnail's URL.
ThumbnailCaptured(s) ==
  /\ s \in thumbnailTimers
  /\ thumbnailTimers' = thumbnailTimers \ {s}
  /\ uploadThumbnail' = s
  /\ UNCHANGED <<now, focused, recording, uploading, cleanupInterval,
                 lastProcessedTime, processingFrame, memoryPressureRef,
                 skippedFramesRef, recordedPoseData, recordingStartTime,
                 frameInterval, flights, cleanupPending, startsAwaiting,
                 camRecording, finished, uploads, banners, docs, sessionCount,
                 backoffCleanups, poseData, isPoseDetected,
                 playVars, drawVars, nativeVars>>

\* App.js:700-702: takePhoto or the upload failed; the ref keeps what it held.
ThumbnailFailed(s) ==
  /\ s \in thumbnailTimers
  /\ thumbnailTimers' = thumbnailTimers \ {s}
  /\ UNCHANGED <<now, focused, recording, uploading, cleanupInterval,
                 lastProcessedTime, processingFrame, memoryPressureRef,
                 skippedFramesRef, recordedPoseData, recordingStartTime,
                 frameInterval, flights, cleanupPending, startsAwaiting,
                 camRecording, finished, uploads, banners, docs, sessionCount,
                 backoffCleanups, poseData, isPoseDetected, uploadThumbnail,
                 playVars, drawVars, nativeVars>>

----------------------------------------------------------------------------
(* onRecordingFinished, App.js:645-678 *)

\* App.js:646-656: the callback starts and waits for the uploads.
RecordingFinished(v) ==
  /\ v \in finished
  /\ finished' = finished \ {v}
  /\ uploads' = uploads \cup {v}
  /\ uploading' = TRUE
  /\ UNCHANGED <<now, focused, recording, cleanupInterval,
                 lastProcessedTime, processingFrame, memoryPressureRef,
                 skippedFramesRef, recordedPoseData, recordingStartTime,
                 frameInterval, flights, cleanupPending, startsAwaiting,
                 camRecording, banners, docs, sessionCount,
                 backoffCleanups, poseData, isPoseDetected, uploadThumbnail, thumbnailTimers,
                 playVars, drawVars, nativeVars>>

\* App.js:659-673: the video is uploaded; the promise in uploadThumbnail.current
\* is awaited (settled, it costs no turn of the event loop), addDoc reads
\* recordedPoseData.current now, and the 1500 ms timer is set.
DocumentWritten(v) ==
  /\ v \in uploads
  /\ uploads' = uploads \ {v}
  /\ docs' = docs \cup {VideoDoc(v)}
  /\ banners' = banners + 1
  /\ UNCHANGED <<now, focused, recording, uploading, cleanupInterval,
                 lastProcessedTime, processingFrame, memoryPressureRef,
                 skippedFramesRef, recordedPoseData, recordingStartTime,
                 frameInterval, flights, cleanupPending, startsAwaiting,
                 camRecording, finished, sessionCount,
                 backoffCleanups, poseData, isPoseDetected, uploadThumbnail, thumbnailTimers,
                 playVars, drawVars, nativeVars>>

\* App.js:674-677: an upload step failed.
UploadFailed_ClearsTimeline(v) ==
  /\ v \in uploads
  /\ uploads' = uploads \ {v}
  /\ uploading' = FALSE
  /\ recordedPoseData' = << >>
  /\ UNCHANGED <<now, focused, recording, cleanupInterval,
                 lastProcessedTime, processingFrame, memoryPressureRef,
                 skippedFramesRef, recordingStartTime,
                 frameInterval, flights, cleanupPending, startsAwaiting,
                 camRecording, finished, banners, docs, sessionCount,
                 backoffCleanups, poseData, isPoseDetected, uploadThumbnail,
                 thumbnailTimers, playVars, drawVars, nativeVars>>

UploadFailed(v) ==
  /\ v \in uploads
  /\ uploads' = uploads \ {v}
  /\ uploading' = FALSE
  /\ UNCHANGED <<now, focused, recording, cleanupInterval,
                 lastProcessedTime, processingFrame, memoryPressureRef,
                 skippedFramesRef, recordedPoseData, recordingStartTime,
                 frameInterval, flights, cleanupPending, startsAwaiting,
                 camRecording, finished, banners, docs, sessionCount,
                 backoffCleanups, poseData, isPoseDetected, uploadThumbnail, thumbnailTimers,
                 playVars, drawVars, nativeVars>>

\* App.js:670-673: the timer fires.
UploadBannerCleared ==
  /\ banners > 0
  /\ banners' = banners - 1
  /\ uploading' = FALSE
  /\ UNCHANGED <<now, focused, recording, cleanupInterval,
                 lastProcessedTime, processingFrame, memoryPressureRef,
                 skippedFramesRef, recordedPoseData, recordingStartTime,
                 frameInterval, flights, cleanupPending, startsAwaiting,
                 camRecording, finished, uploads, docs, sessionCount,
                 backoffCleanups, poseData, isPoseDetected, uploadThumbnail, thumbnailTimers,
                 playVars, drawVars, nativeVars>>

----------------------------------------------------------------------------
Next ==
  \/ Advance
  \/ TickSkipped
  \/ TickBackoff
  \/ TickCapture
  \/ \E i \in 1..Len(flights) : PhotoTaken(i)
  \/ \E i \in 1..Len(flights) : PhotoWithoutPath(i)
  \/ \E i \in 1..Len(flights) : FrameRejected(i)
  \/ \E i \in 1..Len(flights), result \in NativeDetectResults : PoseDetected(i, result)
  \/ \E r \in NativeCleanupResponses : CleanupResolved(r)
  \/ CleanupRejected
  \/ PeriodicCleanup
  \/ ToggleRecordingStart
  \/ \E s \in startsAwaiting, o \in CleanupOutcomes : ToggleRecordingStarted(s, o)
  \/ ToggleRecordingStop
  \/ ToggleCamera
  \/ Blur
  \/ Focus
  \/ \E v \in finished : RecordingFinished(v)
  \/ \E v \in uploads : DocumentWritten(v)
  \/ \E v \in uploads : UploadFailed(v)
  \/ UploadBannerCleared

\* The sampling loop and the recording lifecycle.  The callback of the
\* thumbnail timer writes uploadThumbnail only, which nothing but the
\* thumbnailUrl of VideoDoc reads: it is followed in SpecThumbnail.
Spec == Init /\ [][Next]_vars

\* The recording lifecycle with the thumbnail timer's callback, the sampling
\* loop standing still.
NextThumbnail ==
  \/ Advance
  \/ ToggleRecordingStart
  \/ \E s \in startsAwaiting, o \in CleanupOutcomes : ToggleRecordingStarted(s, o)
  \/ ToggleRecordingStop
  \/ \E s \in thumbnailTimers : ThumbnailCaptured(s)
  \/ \E s \in thumbnailTimers : ThumbnailFailed(s)
  \/ \E v \in finished : RecordingFinished(v)
  \/ \E v \in uploads : DocumentWritten(v)
  \/ \E v \in uploads : UploadFailed(v)
  \/ UploadBannerCleared

SpecThumbnail == Init /\ [][NextThumbnail]_vars



----------------------------------------------------------------------------
(* VideoItem, App.js:130-226: playback of a persisted timeline *)

\* the longest playback time of one loop, in ms
MaxPlaybackMs == 2500

\* timestamps of persisted samples, and playback times reported by onProgress
Timestamps == {0, 500, 1200, 2000}
PlaybackTimes == {0, 50, 500, 700, 1200, 5000}

\* A number or NaN.
JsNumber(n) == [nan |-> FALSE, value |-> n]
JsNaN == [nan |-> TRUE, value |-> 0]
\* a <= b and a > b for a number a and a JavaScript number b: false for NaN
LeqJs(a, b) == ~b.nan /\ a <= b.value
GtJs(a, b) == ~b.nan /\ a > b.value

\* The timelines a recording can have left in the store: poseData is null, or
\* samples in append order, whose timestamps the gate of App.js:514 keeps
\* increasing.
Ascending(S) ==
  LET n == Cardinality(S)
      order == CHOOSE f \in [1..n -> S] : \A i, j \in 1..n : i < j => f[i] < f[j]
  IN [i \in 1..n |-> [timestamp |-> order[i]]]

Timelines ==
  { Ascending(S) : S \in { T \in SUBSET Timestamps : Cardinality(T) \in 1..MaxLen } }

\* A record written by the earlier variant (part_000:234) has no poseData
\* field: item.poseData is undefined.
Items ==
  { [poseData |-> JsNull], [poseData |-> JsUndefined] }
    \cup { [poseData |-> JsArray(tl)] : tl \in Timelines }

\* data.naturalSize of the loaded video (App.js:199-202)
NaturalSizes == { [width |-> 1080, height |-> 1920], [width |-> 0, height |-> 0] }

\* `!item.poseData` (App.js:157): null and undefined are falsy, an array is
\* truthy.
HasPoseData(it) == it.poseData.type = "array"

\* App.js:208: currentTimeMillis % (item.poseData?.[item.poseData.length - 1]?.timestamp || 0)
\* A remainder by 0 is NaN.
PlaybackCursor(it, t) ==
  LET last == IF HasPoseData(it) /\ Len(it.poseData.items) > 0
                THEN it.poseData.items[Len(it.poseData.items)].timestamp
                ELSE 0
  IN IF last = 0 THEN JsNaN ELSE JsNumber(t % last)

\* App.js:159-162: Array.prototype.find; the index of the first frame that is
\* not after c and whose successor, if any, is after c; 0 for undefined.
FindFrame(pd, c) ==
  LET hits == { i \in 1..Len(pd) :
                  /\ LeqJs(pd[i].timestamp, c)
                  /\ (i = Len(pd) \/ GtJs(pd[i + 1].timestamp, c)) }
  IN IF hits = {} THEN 0 ELSE CHOOSE i \in hits : \A j \in hits : i <= j

\* updatePoseData without the `!item.poseData` half of its guard
UpdatedPoseData_NoTimelineCheck(c) ==
  IF ~isActive THEN currentPoseData
  ELSE IF ~HasPoseData(item) THEN 1
  ELSE LET currentFrame == FindFrame(item.poseData.items, c)
       IN IF currentFrame # 0 THEN currentFrame ELSE currentPoseData

\* App.js:156-167: updatePoseData(c).  The published pose is named by the
\* index of its sample.
UpdatedPoseData(c) ==
  IF ~isActive \/ ~HasPoseData(item) THEN currentPoseData
  ELSE LET currentFrame == FindFrame(item.poseData.items, c)
       IN IF currentFrame # 0 THEN currentFrame ELSE currentPoseData

InitRecordIdle ==
  /\ now = StartClock
  /\ focused = FALSE
  /\ recording = FALSE
  /\ uploading = FALSE
  /\ cleanupInterval = FALSE
  /\ lastProcessedTime = 0
  /\ processingFrame = FALSE
  /\ memoryPressureRef = FALSE
  /\ skippedFramesRef = 0
  /\ recordedPoseData = << >>
  /\ recordingStartTime = 0
  /\ frameInterval = [active |-> FALSE, recording |-> FALSE]
  /\ flights = << >>
  /\ cleanupPending = FALSE
  /\ startsAwaiting = {}
  /\ camRecording = 0
  /\ finished = {}
  /\ uploads = {}
  /\ banners = 0
  /\ docs = {}
  /\ sessionCount = 0
  /\ backoffCleanups = 0
  /\ poseData = JsNull
  /\ isPoseDetected = FALSE
  /\ uploadThumbnail = 0
  /\ thumbnailTimers = {}

InitPlayback ==
  /\ InitRecordIdle
  /\ InitDrawIdle
  /\ InitNativeIdle
  /\ item \in Items
  /\ isActive \in BOOLEAN
  /\ videoProgress = 0
  /\ currentPoseData = 0
  /\ isBuffering = TRUE
  /\ videoDimensions = JsNull

\* App.js:204-209: onProgress({currentTime}) with currentTime * 1000 = t
OnProgress(t) ==
  /\ videoProgress' = t
  /\ currentPoseData' = UpdatedPoseData(PlaybackCursor(item, t))
  /\ UNCHANGED <<item, isActive, isBuffering, videoDimensions, recordVars,
                 drawVars, nativeVars>>

\* The feed makes the item the active one, or another one (prop isActive,
\* App.js:130); the item keeps its state.
SetActive(b) ==
  /\ isActive # b
  /\ isActive' = b
  /\ UNCHANGED <<item, videoProgress, currentPoseData, isBuffering,
                 videoDimensions, recordVars, drawVars, nativeVars>>

\* App.js:193-196: onBuffer({isBuffering})
OnBuffer(buffering) ==
  /\ isBuffering # buffering
  /\ isBuffering' = buffering
  /\ UNCHANGED <<item, isActive, videoProgress, currentPoseData,
                 videoDimensions, recordVars, drawVars, nativeVars>>

\* App.js:197-203: onLoad(data)
OnLoad(naturalSize) ==
  /\ isBuffering' = FALSE
  /\ videoDimensions' = naturalSize
  /\ UNCHANGED <<item, isActive, videoProgress, currentPoseData,
                 recordVars, drawVars, nativeVars>>

\* App.js:216-218: {currentPoseData && isActive && <WireframeOverlay .../>}
OverlayRendered == currentPoseData # 0 /\ isActive

NextPlayback ==
  \/ \E t \in PlaybackTimes : OnProgress(t)
  \/ \E b \in BOOLEAN : SetActive(b)
  \/ \E b \in BOOLEAN : OnBuffer(b)
  \/ \E size \in NaturalSizes : OnLoad(size)

SpecPlayback == InitPlayback /\ [][NextPlayback]_vars

----------------------------------------------------------------------------
(* PoseDetectionModule.cleanupCache, firebase.js:69-108.  React Native runs  *)
(* the methods of a native module one at a time on its own thread, so a     *)
(* call is one action.                                                      *)

\* System.currentTimeMillis() when the module is constructed and the value it
\* never exceeds; the clock advances in steps of ClockStepMs
NativeStartClock == 5000
NativeMaxClock == 9000
ClockStepMs == 500
\* the most camera photos the cache directory holds
MaxFiles == 3

\* firebase.js:73 and firebase.js:83
CleanupRateLimitMs == 1000
maxAge == 3000

\* cleanupCache whose rate limit never applies
RateLimited_Never(t) == FALSE

\* firebase.js:73: currentTime - lastCleanupTime < 1000
RateLimited(t) == t - lastCleanupTime < CleanupRateLimitMs

\* firebase.js:85-87: the mrousavy*.jpg files older than maxAge; a file is
\* named by its lastModified()
Expired(t) == { f \in cacheFiles : t - f > maxAge }

InitNative ==
  /\ InitRecordIdle
  /\ InitPlayIdle
  /\ InitDrawIdle
  /\ currentTime = NativeStartClock
  /\ lastCleanupTime = 0
  /\ cacheFiles = {}
  /\ cleanupPromise = JsNull
  /\ lastRealCleanup = 0

\* System.currentTimeMillis() moves on.
ClockAdvance ==
  /\ currentTime + ClockStepMs <= NativeMaxClock
  /\ currentTime' = currentTime + ClockStepMs
  /\ UNCHANGED <<lastCleanupTime, cacheFiles, cleanupPromise, lastRealCleanup,
                 recordVars, playVars, drawVars>>

\* takePhoto (App.js:529) leaves a mrousavy*.jpg in the cache directory.
PhotoFileWritten ==
  /\ Cardinality(cacheFiles) < MaxFiles
  /\ currentTime \notin cacheFiles
  /\ cacheFiles' = cacheFiles \cup {currentTime}
  /\ UNCHANGED <<currentTime, lastCleanupTime, cleanupPromise, lastRealCleanup,
                 recordVars, playVars, drawVars>>

\* firebase.js:72-79: the call is rate limited.
CleanupCacheSkipped ==
  /\ RateLimited(currentTime)
  /\ cleanupPromise' = [ok |-> TRUE,
                        response |-> [deletedFiles |-> 0, skipped |-> TRUE]]
  /\ UNCHANGED <<currentTime, lastCleanupTime, cacheFiles, lastRealCleanup,
                 recordVars, playVars, drawVars>>

\* firebase.js:81-104: the scan ran to its end; file.delete() succeeded for
\* the files of deleted.  lastRealCleanup keeps the time of this call.
CleanupCacheRan(deleted) ==
  /\ ~RateLimited(currentTime)
  /\ deleted \subseteq Expired(currentTime)
  /\ cacheFiles' = cacheFiles \ deleted
  /\ lastCleanupTime' = currentTime
  /\ lastRealCleanup' = currentTime
  /\ cleanupPromise' = [ok |-> TRUE,
                        response |-> [deletedFiles |-> Cardinality(deleted),
                                      skipped |-> FALSE]]
  /\ UNCHANGED <<currentTime, recordVars, playVars, drawVars>>

\* firebase.js:81-93, 105-107: the scan threw after file.delete() succeeded for
\* the files of deleted; the promise is rejected and lastCleanupTime is not
\* written.
CleanupCacheThrew(deleted) ==
  /\ ~RateLimited(currentTime)
  /\ deleted \subseteq Expired(currentTime)
  /\ cacheFiles' = cacheFiles \ deleted
  /\ cleanupPromise' = [ok |-> FALSE]
  /\ UNCHANGED <<currentTime, lastCleanupTime, lastRealCleanup,
                 recordVars, playVars, drawVars>>

NextNative ==
  \/ ClockAdvance
  \/ PhotoFileWritten
  \/ CleanupCacheSkipped
  \/ \E deleted \in SUBSET cacheFiles : CleanupCacheRan(deleted)
  \/ \E deleted \in SUBSET cacheFiles : CleanupCacheThrew(deleted)

SpecNative == InitNative /\ [][NextNative]_vars

----------------------------------------------------------------------------
(* The earlier RecordScreen (src/unnamed/part_000:134-300): its sampling     *)
(* effect, part_000:146-197.  The interval callback has no gate and no      *)
(* busy flag; flights holds the callbacks that are between their first      *)
(* await and their end.                                                     *)

\* the period of the earlier loop, part_000:191
EarlierPeriodMs == 100
\* Date.now() never exceeds this value in the earlier variant
EarlierMaxClock == 1600

\* part_000:185: result.landmarks || null; the native module always sends a
\* landmarks map, and an object is truthy
LandmarksOrNull(result) == LandmarkSet(result.landmarks)

InitEarlier ==
  /\ InitRecordIdle
  /\ InitPlayIdle
  /\ InitDrawIdle
  /\ InitNativeIdle

\* part_000:147-152, 191: device and camera are there; the interval is set.
EarlierEffect ==
  /\ ~frameInterval.active
  /\ frameInterval' = [frameInterval EXCEPT !.active = TRUE]
  /\ UNCHANGED <<now, focused, recording, uploading, cleanupInterval,
                 lastProcessedTime, processingFrame, memoryPressureRef,
                 skippedFramesRef, recordedPoseData, recordingStartTime,
                 flights, cleanupPending, startsAwaiting, camRecording,
                 finished, uploads, banners, docs, sessionCount,
                 backoffCleanups, poseData, isPoseDetected, uploadThumbnail,
                 thumbnailTimers, playVars, drawVars, nativeVars>>

\* part_000:193-196: the effect's teardown, clearInterval.
EarlierTeardown ==
  /\ frameInterval.active
  /\ frameInterval' = [frameInterval EXCEPT !.active = FALSE]
  /\ UNCHANGED <<now, focused, recording, uploading, cleanupInterval,
                 lastProcessedTime, processingFrame, memoryPressureRef,
                 skippedFramesRef, recordedPoseData, recordingStartTime,
                 flights, cleanupPending, startsAwaiting, camRecording,
                 finished, uploads, banners, docs, sessionCount,
                 backoffCleanups, poseData, isPoseDetected, uploadThumbnail,
                 thumbnailTimers, playVars, drawVars, nativeVars>>

\* part_000:153-162: 100 ms have passed and the interval fires; the callback
\* runs up to `await takePhoto`.
EarlierTick ==
  /\ frameInterval.active
  /\ now + EarlierPeriodMs <= EarlierMaxClock
  /\ Len(flights) < MaxFlights
  /\ now' = now + EarlierPeriodMs
  /\ flights' = Append(flights, [pc |-> "takePhoto", now |-> now',
                                 recording |-> FALSE, video |-> 0,
                                 cleared |-> FALSE])
  /\ UNCHANGED <<focused, recording, uploading, cleanupInterval,
                 lastProcessedTime, processingFrame, memoryPressureRef,
                 skippedFramesRef, recordedPoseData, recordingStartTime,
                 frameInterval, cleanupPending, startsAwaiting, camRecording,
                 finished, uploads, banners, docs, sessionCount,
                 backoffCleanups, poseData, isPoseDetected, uploadThumbnail,
                 thumbnailTimers, playVars, drawVars, nativeVars>>

\* part_000:156-181: takePhoto resolved with a path; detectPose is called.
EarlierPhotoTaken(i) ==
  /\ flights[i].pc = "takePhoto"
  /\ flights' = [flights EXCEPT ![i].pc = "detectPose"]
  /\ UNCHANGED <<now, focused, recording, uploading, cleanupInterval,
                 lastProcessedTime, processingFrame, memoryPressureRef,
                 skippedFramesRef, recordedPoseData, recordingStartTime,
                 frameInterval, cleanupPending, startsAwaiting, camRecording,
                 finished, uploads, banners, docs, sessionCount,
                 backoffCleanups, poseData, isPoseDetected, uploadThumbnail,
                 thumbnailTimers, playVars, drawVars, nativeVars>>

\* part_000:171-174: no frame.path, the callback returns.
EarlierPhotoWithoutPath(i) ==
  /\ flights[i].pc = "takePhoto"
  /\ flights' = Without(flights, i)
  /\ UNCHANGED <<now, focused, recording, uploading, cleanupInterval,
                 lastProcessedTime, processingFrame, memoryPressureRef,
                 skippedFramesRef, recordedPoseData, recordingStartTime,
                 frameInterval, cleanupPending, startsAwaiting, camRecording,
                 finished, uploads, banners, docs, sessionCount,
                 backoffCleanups, poseData, isPoseDetected, uploadThumbnail,
                 thumbnailTimers, playVars, drawVars, nativeVars>>

\* part_000:183-185: detectPose resolved.
EarlierPoseDetected(i, result) ==
  /\ flights[i].pc = "detectPose"
  /\ flights' = Without(flights, i)
  /\ isPoseDetected' = result.poseDetected
  /\ poseData' = LandmarksOrNull(result)
  /\ UNCHANGED <<now, focused, recording, uploading, cleanupInterval,
                 lastProcessedTime, processingFrame, memoryPressureRef,
                 skippedFramesRef, recordedPoseData, recordingStartTime,
                 frameInterval, cleanupPending, startsAwaiting, camRecording,
                 finished, uploads, banners, docs, sessionCount,
                 backoffCleanups, uploadThumbnail, thumbnailTimers, playVars,
                 drawVars, nativeVars>>

\* part_000:186-190: takePhoto or detectPose rejected.
EarlierFrameRejected(i) ==
  /\ flights' = Without(flights, i)
  /\ isPoseDetected' = FALSE
  /\ poseData' = JsNull
  /\ UNCHANGED <<now, focused, recording, uploading, cleanupInterval,
                 lastProcessedTime, processingFrame, memoryPressureRef,
                 skippedFramesRef, recordedPoseData, recordingStartTime,
                 frameInterval, cleanupPending, startsAwaiting, camRecording,
                 finished, uploads, banners, docs, sessionCount,
                 backoffCleanups, uploadThumbnail, thumbnailTimers, playVars,
                 drawVars, nativeVars>>

NextEarlier ==
  \/ EarlierEffect
  \/ EarlierTeardown
  \/ EarlierTick
  \/ \E i \in 1..Len(flights) : EarlierPhotoTaken(i)
  \/ \E i \in 1..Len(flights) : EarlierPhotoWithoutPath(i)
  \/ \E i \in 1..Len(flights), result \in NativeDetectResults :
       EarlierPoseDetected(i, result)
  \/ \E i \in 1..Len(flights) : EarlierFrameRejected(i)

SpecEarlier == InitEarlier /\ [][NextEarlier]_vars


----------------------------------------------------------------------------
(* JavaScript numbers as far as the landmark transforms need them: exact    *)
(* fractions for the finite values, the two infinities, and NaN.            *)

Abs(n) == IF n < 0 THEN 0 - n ELSE n
Sign(n) == IF n < 0 THEN 0 - 1 ELSE IF n > 0 THEN 1 ELSE 0

\* greatest common divisor of n >= 0 and d > 0
Gcd(n, d) ==
  CHOOSE g \in 1..d :
    /\ n % g = 0 /\ d % g = 0
    /\ \A h \in (g + 1)..d : ~(n % h = 0 /\ d % h = 0)

\* the finite number n / d, d # 0, in lowest terms with a positive denominator
Fraction(n, d) ==
  LET g == Gcd(Abs(n), Abs(d))
  IN [kind |-> "number",
      num |-> Sign(n) * Sign(d) * (Abs(n) \div g),
      den |-> Abs(d) \div g]

JsInfinity(sign) == [kind |-> "Infinity", sign |-> sign]
NotANumber == [kind |-> "NaN"]

\* a / b for integers a and b: a division by zero does not throw, it gives
\* an infinity, or NaN for 0 / 0
JsDivide(a, b) ==
  IF b # 0 THEN Fraction(a, b)
  ELSE IF a = 0 THEN NotANumber ELSE JsInfinity(Sign(a))

\* x * f for an integer x and a JavaScript number f
JsTimes(x, f) ==
  IF f.kind = "number" THEN Fraction(x * f.num, f.den)
  ELSE IF f.kind = "Infinity"
    THEN IF x = 0 THEN NotANumber ELSE JsInfinity(Sign(x) * f.sign)
  ELSE NotANumber

\* v + c for a JavaScript number v and an integer c
JsPlus(v, c) ==
  IF v.kind = "number" THEN Fraction(v.num + c * v.den, v.den) ELSE v

\* a < b: false when either side is NaN
JsLess(a, b) ==
  /\ a.kind = "number" /\ b.kind = "number"
  /\ a.num * b.den < b.num * a.den

----------------------------------------------------------------------------
(* The landmark transforms, App.js:137-153 and 560-571 *)

\* App.js:140-141 and 561-562: window size over source size
ScaleFactor_Inverted(dst, src) == JsDivide(src, dst)
ScaleFactor(dst, src) == JsDivide(dst, src)

\* App.js:137-153: VideoItem.transformPoseData(poseData), for a sample
\* poseData = {landmarks, dimensions}.  The function builds a new object and
\* assigns to nothing else.
TransformPoseData(sample) ==
  IF sample = JsNull THEN JsNull
  ELSE LET xFactor == ScaleFactor(dimensions.width, sample.dimensions.width)
           yFactor == ScaleFactor(dimensions.height, sample.dimensions.height)
       IN [key \in DOMAIN sample.landmarks |->
             [x |-> JsTimes(sample.landmarks[key].x, xFactor),
              y |-> JsTimes(sample.landmarks[key].y, yFactor),
              visibility |-> sample.landmarks[key].visibility]]

\* App.js:561-571: the transform of the frame callback, for a detector result
\* {landmarks, imageWidth, imageHeight}: the scaled coordinates are shifted
\* by +50 and -100.
CaptureTransform(result) ==
  LET xFactor == ScaleFactor(dimensions.width, result.imageWidth)
      yFactor == ScaleFactor(dimensions.height, result.imageHeight)
  IN [key \in DOMAIN result.landmarks |->
        [x |-> JsPlus(JsTimes(result.landmarks[key].x, xFactor), 50),
         y |-> JsPlus(JsTimes(result.landmarks[key].y, yFactor), 0 - 100),
         visibility |-> result.landmarks[key].visibility]]

----------------------------------------------------------------------------
(* WireframeOverlay, App.js:17-123 *)

\* the landmark names of firebase.js:46-59
LandmarkOrder ==
  << "leftShoulder", "rightShoulder", "leftElbow", "rightElbow",
     "leftWrist", "rightWrist", "leftHip", "rightHip",
     "leftKnee", "rightKnee", "leftAnkle", "rightAnkle" >>

\* App.js:17-30
POSE_CONNECTIONS ==
  { <<"leftShoulder", "rightShoulder">>, <<"leftShoulder", "leftElbow">>,
    <<"leftElbow", "leftWrist">>, <<"rightShoulder", "rightElbow">>,
    <<"rightElbow", "rightWrist">>, <<"leftShoulder", "leftHip">>,
    <<"rightShoulder", "rightHip">>, <<"leftHip", "rightHip">>,
    <<"leftHip", "leftKnee">>, <<"leftKnee", "leftAnkle">>,
    <<"rightHip", "rightKnee">>, <<"rightKnee", "rightAnkle">> }

\* App.js:33
VISIBILITY_THRESHOLD == Fraction(1, 2)

\* App.js:39-40 and 66: visibility < VISIBILITY_THRESHOLD
BelowThreshold_Inclusive(visibility) == ~JsLess(VISIBILITY_THRESHOLD, visibility)
BelowThreshold(visibility) == JsLess(visibility, VISIBILITY_THRESHOLD)

\* App.js:37-62: PoseLine renders a Line unless an endpoint is missing
\* (poseData[start] is undefined) or below the threshold.
PoseLine(pd, start, end) ==
  ~( \/ start \notin DOMAIN pd
     \/ end \notin DOMAIN pd
     \/ BelowThreshold(pd[start].visibility)
     \/ BelowThreshold(pd[end].visibility) )

\* App.js:65-86: PosePoint renders a Circle unless the point is below the
\* threshold.
PosePoint(point) == ~BelowThreshold(point.visibility)

\* App.js:89-123: null for no pose data, else the Lines and Circles rendered
\* (their colour, radius and opacity are left out).
WireframeOverlay(pd) ==
  IF pd = JsNull THEN JsNull
  ELSE [lines |-> { c \in POSE_CONNECTIONS : PoseLine(pd, c[1], c[2]) },
        points |-> { key \in DOMAIN pd : PosePoint(pd[key]) }]

----------------------------------------------------------------------------
(* The transforms and the overlay applied to bounded inputs (SpecOverlay) *)

\* raw coordinates, source sizes (zero and negative ones included), windows
Coordinates == {0, 5}
Visibilities == { Fraction(49, 100), Fraction(1, 2), Fraction(9, 10) }
SourceSizes == {0 - 2, 0, 2, 3}
Windows == { [width |-> 4, height |-> 6], [width |-> 6, height |-> 4] }

LandmarkNames == { LandmarkOrder[i] : i \in 1..MaxLandmarks }
Points == [x : Coordinates, y : Coordinates, visibility : Visibilities]
LandmarkSets == UNION { [S -> Points] : S \in SUBSET LandmarkNames }

\* landmarks with the dimensions of the space they are expressed in
LandmarkSources == [landmarks : LandmarkSets, width : SourceSizes, height : SourceSizes]

\* the source as a persisted sample (App.js:578-585) and as a detector
\* result (firebase.js:139-153)
AsSample(src) ==
  [landmarks |-> src.landmarks,
   dimensions |-> [width |-> src.width, height |-> src.height]]
AsDetectResult(src) ==
  [landmarks |-> src.landmarks, imageWidth |-> src.width, imageHeight |-> src.height]

InitOverlay ==
  /\ InitRecordIdle
  /\ InitPlayIdle
  /\ InitNativeIdle
  /\ dimensions \in Windows
  /\ landmarkSource \in LandmarkSources
  /\ transformedLandmarks = JsNull
  /\ drawn = JsNull

\* App.js:165 and 216-218: setCurrentPoseData(transformPoseData(currentFrame)),
\* then the render with the new state.
PlaybackTransform ==
  /\ transformedLandmarks' = TransformPoseData(AsSample(landmarkSource))
  /\ drawn' = WireframeOverlay(transformedLandmarks')
  /\ UNCHANGED <<dimensions, landmarkSource, recordVars, playVars, nativeVars>>

\* App.js:560-573 and 749: setPoseData(transformedLandmarks), then the render
\* with the new state.
CaptureTransformed ==
  /\ transformedLandmarks' = CaptureTransform(AsDetectResult(landmarkSource))
  /\ drawn' = WireframeOverlay(transformedLandmarks')
  /\ UNCHANGED <<dimensions, landmarkSource, recordVars, playVars, nativeVars>>

NextOverlay ==
  \/ PlaybackTransform
  \/ CaptureTransformed

SpecOverlay == InitOverlay /\ [][NextOverlay]_vars

----------------------------------------------------------------------------
(* Claims about the frame sampling loop and the recorder (Spec) *)

\* C1: at most one capture/detection is in flight at any time: no tick starts
\* takePhoto/detectPose while an earlier tick's detection has not settled,
\* whatever the latencies and however often the interval is re-created.
C1_SingleFlight == Len(flights) <= 1

\* C1 witness: a detection is still pending although the interval was
\* re-created with another `recording` and a sampling period has passed.
C1_DetectionOutlivesInterval ==
  /\ Len(flights) = 1
  /\ flights[1].pc = "detectPose"
  /\ flights[1].recording # frameInterval.recording
  /\ now >= flights[1].now + MinGapMs

\* C2: once the recording has been stopped (recording is false and no new
\* recording is being started), no step appends a sample to recordedPoseData.
C2_NoAppendAfterStop ==
  [][ (~recording /\ sessionCount > 0 /\ startsAwaiting = {})
        => Len(recordedPoseData') <= Len(recordedPoseData) ]_vars

\* C3: the poseData persisted with a video holds no sample whose frame was
\* taken while the camera was recording another video.
C3_TimelineOfItsSession ==
  \A d \in docs :
    d.poseData.type = "array" =>
      \A i \in 1..Len(d.poseData.items) :
        d.poseData.items[i].session \in {0, d.videoUrl}

\* C4: the timestamps of recordedPoseData are non-decreasing in append order.
C4_MonotonicTimeline ==
  \A i \in 1..Len(recordedPoseData) - 1 :
    recordedPoseData[i].timestamp <= recordedPoseData[i + 1].timestamp

\* C4 witness: two samples were appended, the second one later than the first.
C4_TwoSamplesAppended ==
  /\ Len(recordedPoseData) = 2
  /\ recordedPoseData[1].timestamp < recordedPoseData[2].timestamp

\* addDoc has just written a document
DocumentWrittenStep == \E v \in uploads : DocumentWritten(v)

C9_ResolvedCleanupClearsFlag ==
  [][ ( /\ \E r \in NativeCleanupResponses : CleanupResolved(r)
        /\ memoryPressureRef
        /\ skippedFramesRef >= maxSkippedFrames )
        => (~memoryPressureRef' /\ skippedFramesRef' = 0) ]_vars

\* C10: in one pressure episode no backoff cleanup is issued before the third
\* skipped tick, and no second one is issued.
C10_OneBackoffCleanup ==
  /\ backoffCleanups <= 1
  /\ (backoffCleanups >= 1 => skippedFramesRef >= maxSkippedFrames)

----------------------------------------------------------------------------
(* Claims about playback (SpecPlayback) *)

OnProgressStep == \E t \in PlaybackTimes : OnProgress(t)

\* The index of the sample with the greatest timestamp not after t, 0 if none.
GreatestNotAfter(pd, t) ==
  LET S == { i \in 1..Len(pd) : pd[i].timestamp <= t }
  IN IF S = {} THEN 0 ELSE CHOOSE i \in S : \A j \in S : j <= i

\* C5: on a progress update at time t of an active item with a timeline, the
\* resolved sample is the one with the greatest timestamp <= t.
C5_ResolvesGreatestNotAfter ==
  [][ ( /\ OnProgressStep
        /\ isActive
        /\ HasPoseData(item)
        /\ GreatestNotAfter(item.poseData.items, videoProgress') # 0 )
        => currentPoseData' = GreatestNotAfter(item.poseData.items, videoProgress') ]_vars

\* C6: when the playback time exceeds the last sample's timestamp, the last
\* sample is resolved (hold last known pose).
C6_HoldsLastSample ==
  [][ ( /\ OnProgressStep
        /\ isActive
        /\ HasPoseData(item)
        /\ videoProgress' > item.poseData.items[Len(item.poseData.items)].timestamp )
        => currentPoseData' = Len(item.poseData.items) ]_vars

\* C7: after playback has wrapped (the time went back to about 0), the
\* published pose is not a later sample resolved during the previous loop:
\* it is the first sample, if any.
C7_WrapRestartsAtFirstSample ==
  [][ ( /\ OnProgressStep
        /\ isActive
        /\ HasPoseData(item)
        /\ videoProgress' < videoProgress
        /\ videoProgress' <= 50 )
        => currentPoseData' <= 1 ]_vars

----------------------------------------------------------------------------
(* Claims about teardown, blur and the periodic cleanup (Spec) *)

\* C11: once the sampling effect has been torn down (its interval cleared),
\* no callback that interval started submits a frame to the detector: a
\* callback that was awaiting takePhoto at the teardown does not go on to
\* call detectPose.
C11_NoSubmitAfterTeardown ==
  [][ \A i \in 1..Len(flights) : flights[i].cleared => ~PhotoTaken(i) ]_vars

\* C12: between a navigation blur and the next focus, no sampling tick issues
\* takePhoto or detectPose.
C12_NoSamplingWhileBlurred ==
  [][ ~focused => ~(TickCapture \/ \E i \in 1..Len(flights) : PhotoTaken(i)) ]_vars

\* C13: whenever the sampling loop is running, the 5 s cleanup timer is live,
\* in particular after the screen was blurred and focused again.
C13_PeriodicCleanupAlive == frameInterval.active => cleanupInterval

----------------------------------------------------------------------------
(* Claims about what a detection appends and publishes (Spec) *)

\* C18: every sample in recordedPoseData has a timestamp >= 0 (the sampling
\* time minus the start of the session that produced it is never negative).
C18_ElapsedTimestamps ==
  \A i \in 1..Len(recordedPoseData) : recordedPoseData[i].timestamp >= 0

\* a detection that resolved without a pose: poseDetected false, no landmark
\* entries (firebase.js:153-154)
NoPoseResults == { r \in NativeDetectResults : ~r.poseDetected /\ r.landmarks = 0 }

\* detectPose has just resolved without a pose
NoPoseStep == \E i \in 1..Len(flights), r \in NoPoseResults : PoseDetected(i, r)

\* C19: a detection in which the detector found no pose appends nothing to
\* recordedPoseData.
C19_NoPoseAppendsNothing ==
  [][ NoPoseStep => recordedPoseData' = recordedPoseData ]_vars

\* C20: when detectPose resolves without a pose, the live overlay's poseData
\* becomes null and the memory-pressure flag is left as it was.
C20_NoPoseClearsOverlay ==
  [][ NoPoseStep => (poseData' = JsNull /\ memoryPressureRef' = memoryPressureRef) ]_vars

----------------------------------------------------------------------------
(* Claims about the landmark transforms and the overlay (SpecOverlay) *)

PositiveSource == landmarkSource.width > 0 /\ landmarkSource.height > 0

\* the landmarks of the source scaled to the window, computed as
\* x * dstW / srcW and y * dstH / srcH, for positive source dimensions
ScaledToWindow ==
  [key \in DOMAIN landmarkSource.landmarks |->
     [x |-> Fraction(landmarkSource.landmarks[key].x * dimensions.width,
                     landmarkSource.width),
      y |-> Fraction(landmarkSource.landmarks[key].y * dimensions.height,
                     landmarkSource.height),
      visibility |-> landmarkSource.landmarks[key].visibility]]

\* C14: for positive dimensions transformPoseData maps every landmark
\* (x, y, visibility) to (x*dstW/srcW, y*dstH/srcH, visibility), keeps exactly
\* the sample's landmark keys and leaves the sample unmodified.
C14_PlaybackTransformScales ==
  [][ (PlaybackTransform /\ PositiveSource)
        => /\ transformedLandmarks' = ScaledToWindow
           /\ DOMAIN transformedLandmarks' = DOMAIN landmarkSource.landmarks
           /\ landmarkSource' = landmarkSource ]_vars

\* C14 witness: transformPoseData returned a set with a coordinate that is
\* not a whole number, for positive source dimensions that differ from the
\* window's.
C14_FractionalCoordinate ==
  /\ PositiveSource
  /\ transformedLandmarks # JsNull
  /\ transformedLandmarks = TransformPoseData(AsSample(landmarkSource))
  /\ \E key \in DOMAIN transformedLandmarks :
       /\ transformedLandmarks[key].x.kind = "number"
       /\ transformedLandmarks[key].x.den > 1

\* C15: the landmarks the sampling loop publishes are the detector's raw
\* coordinates scaled to the window, with no additional offset and with
\* visibility unchanged.
C15_CaptureTransformScales ==
  [][ (CaptureTransformed /\ PositiveSource)
        => transformedLandmarks' = ScaledToWindow ]_vars

\* the error the transform contract names
InvalidDimension == [error |-> "InvalidDimension"]

\* C16: a transform whose source width or height is zero or negative fails
\* with InvalidDimension instead of producing coordinates, at playback and
\* at capture.
C16_InvalidDimensionRaised ==
  [][ ((PlaybackTransform \/ CaptureTransformed) /\ ~PositiveSource)
        => transformedLandmarks' = InvalidDimension ]_vars

\* C17: WireframeOverlay draws the segment of a connection iff both endpoints
\* are present with visibility >= 0.5, and a point marker for a landmark iff
\* its visibility >= 0.5.
C17_ThresholdGating ==
  drawn # JsNull =>
    /\ \A c \in POSE_CONNECTIONS :
         c \in drawn.lines <=>
           /\ c[1] \in DOMAIN transformedLandmarks
           /\ c[2] \in DOMAIN transformedLandmarks
           /\ ~JsLess(transformedLandmarks[c[1]].visibility, Fraction(1, 2))
           /\ ~JsLess(transformedLandmarks[c[2]].visibility, Fraction(1, 2))
    /\ \A key \in DOMAIN transformedLandmarks :
         key \in drawn.points <=>
           ~JsLess(transformedLandmarks[key].visibility, Fraction(1, 2))
    /\ drawn.points \subseteq DOMAIN transformedLandmarks

\* C17 witness: a landmark with visibility exactly 0.5 is drawn next to one
\* with visibility 0.49 that is not, and the segment between them is not.
C17_BoundaryDrawn ==
  /\ drawn # JsNull
  /\ \E a, b \in DOMAIN transformedLandmarks :
       /\ transformedLandmarks[a].visibility = Fraction(1, 2)
       /\ transformedLandmarks[b].visibility = Fraction(49, 100)
       /\ a \in drawn.points
       /\ b \notin drawn.points
       /\ <<a, b>> \in POSE_CONNECTIONS
       /\ <<a, b>> \notin drawn.lines

----------------------------------------------------------------------------
(* Claims about failures, the gate and the busy flag (Spec) *)

\* takePhoto or detectPose has just rejected
FrameRejectedStep == \E i \in 1..Len(flights) : FrameRejected(i)

\* C21: when takePhoto or detectPose rejects, the overlay is cleared (poseData
\* null, isPoseDetected false), the memory-pressure flag is set, nothing is
\* appended to the timeline and the sampling timer keeps running.
C21_RejectionRecoveredLocally ==
  [][ FrameRejectedStep =>
        /\ poseData' = JsNull
        /\ ~isPoseDetected'
        /\ memoryPressureRef'
        /\ recordedPoseData' = recordedPoseData
        /\ frameInterval' = frameInterval
        /\ frameInterval'.active ]_vars

\* C21 witness: while recording, after a sample was appended and shown, a
\* later frame was rejected: the overlay is null and the flag is set.
C21_RejectedWhileRecording ==
  /\ recording
  /\ Len(recordedPoseData) > 0
  /\ poseData = JsNull
  /\ ~isPoseDetected
  /\ memoryPressureRef
  /\ flights = << >>

\* C22: a cleanupCache call that fails sets the memory-pressure flag and
\* changes nothing else: recording, the timeline, the overlay, the skipped
\* frame counter and both timers stay as they were.
C22_FailedCleanupOnlySetsFlag ==
  [][ CleanupRejected =>
        /\ memoryPressureRef'
        /\ UNCHANGED <<recording, recordedPoseData, poseData, isPoseDetected,
                       skippedFramesRef, frameInterval, cleanupInterval,
                       flights, processingFrame>> ]_vars

\* C22 witness: the flag is set although the overlay shows a pose and the
\* recording goes on, which only a failed cleanup brings about.
C22_FlagSetByCleanupAlone ==
  /\ memoryPressureRef
  /\ poseData # JsNull
  /\ recording
  /\ Len(recordedPoseData) > 0

\* C23: no tick captures less than 200 ms after the tick time of the last
\* resolved detection; the tick times of successive resolved detections and
\* the timestamps of successive samples are at least 200 ms apart.
C23_MinimumGap ==
  [][ /\ TickCapture => now - lastProcessedTime >= MinGapMs
      /\ (\E i \in 1..Len(flights), r \in NativeDetectResults : PoseDetected(i, r))
           => lastProcessedTime' - lastProcessedTime >= MinGapMs
      /\ \A i \in 1..Len(recordedPoseData') - 1 :
           recordedPoseData'[i + 1].timestamp - recordedPoseData'[i].timestamp
             >= MinGapMs ]_vars

\* C23 witness: a second sample was appended exactly one minimum gap after
\* the first, and its detection resolved within the current instant.
C23_SecondSampleAfterGap ==
  /\ Len(recordedPoseData) = 2
  /\ recordedPoseData[2].timestamp - recordedPoseData[1].timestamp = MinGapMs
  /\ lastProcessedTime = now

\* an upload step of onRecordingFinished has just failed
UploadFailedStep == \E v \in uploads : UploadFailed(v)

\* C26: a failed upload only resets the uploading indicator: the timeline,
\* the recording flag, the memory-pressure state and the sampling loop are
\* unchanged and no document is written.
C26_FailedUploadKeepsState ==
  [][ UploadFailedStep =>
        /\ ~uploading'
        /\ UNCHANGED <<recordedPoseData, recording, memoryPressureRef,
                       skippedFramesRef, frameInterval, flights,
                       processingFrame, docs>> ]_vars

\* C26 witness: a recording with a sample was stopped and its upload is over
\* without any document having been written.
C26_UploadFailedNoDocument ==
  /\ sessionCount > 0
  /\ startsAwaiting = {}
  /\ camRecording = 0
  /\ finished = {} /\ uploads = {} /\ docs = {}
  /\ ~uploading
  /\ Len(recordedPoseData) > 0

\* C28: processingFrame is true exactly while a tick's capture/detection is
\* in flight: every exit path of the callback lowers it.
C28_BusyOnlyInFlight == processingFrame <=> Len(flights) > 0

\* C28 witness: the flag is down again after a frame was rejected and,
\* earlier, a detection had resolved.
C28_FlagLoweredAfterExits ==
  /\ ~processingFrame
  /\ flights = << >>
  /\ lastProcessedTime > 0
  /\ memoryPressureRef
  /\ poseData = JsNull
  /\ focused

----------------------------------------------------------------------------
(* Claim about the thumbnail (SpecThumbnail) *)

\* C29: the thumbnailUrl stored with a video is null or the URL of a
\* thumbnail captured by that video's own recording, never one left in
\* uploadThumbnail by an earlier recording.
C29_ThumbnailOfItsRecording ==
  \A d \in docs :
    d.thumbnailUrl # JsNull => d.thumbnailUrl.thumbnailOf = d.videoUrl

----------------------------------------------------------------------------
(* Claims about items without a timeline and about reachable samples       *)
(* (SpecPlayback)                                                           *)

\* C24: for an item whose record has no timeline (poseData null or absent),
\* currentPoseData stays null through every load, buffer, progress and
\* activation event, and no overlay is rendered.
C24_NoTimelineNoPose ==
  ~HasPoseData(item) => (currentPoseData = 0 /\ ~OverlayRendered)

\* an active item without the poseData field has loaded and reported progress
C24_PlayedWithoutTimeline ==
  /\ item.poseData = JsUndefined
  /\ isActive
  /\ videoProgress > 0
  /\ ~isBuffering
  /\ videoDimensions # JsNull

\* C30: for an active item with a timeline, every sample, the last one and
\* the only one of a one-sample timeline included, is the one a progress
\* update publishes at some playback time t >= 0 of one loop.
C30_EverySampleResolved ==
  (isActive /\ HasPoseData(item)) =>
    \A i \in 1..Len(item.poseData.items) :
      \E t \in 0..MaxPlaybackMs : UpdatedPoseData(PlaybackCursor(item, t)) = i

----------------------------------------------------------------------------
(* Claim about the native rate limit (SpecNative) *)

\* a cleanupCache call of the native module
CleanupCacheCall ==
  \/ CleanupCacheSkipped
  \/ \E deleted \in SUBSET cacheFiles : CleanupCacheRan(deleted)
  \/ \E deleted \in SUBSET cacheFiles : CleanupCacheThrew(deleted)

\* the call resolved with skipped = false
ResolvedReal == cleanupPromise'.ok /\ ~cleanupPromise'.response.skipped

\* C25: two cleanupCache calls that perform a real cleanup are at least
\* 1000 ms apart; a call less than 1000 ms after the last real cleanup
\* resolves with deletedFiles = 0 and skipped = true, deletes no file and
\* leaves lastCleanupTime alone.
C25_RateLimited ==
  [][ CleanupCacheCall =>
        /\ (ResolvedReal /\ lastRealCleanup # 0)
             => currentTime - lastRealCleanup >= CleanupRateLimitMs
        /\ (lastRealCleanup # 0 /\ currentTime - lastRealCleanup < CleanupRateLimitMs)
             => /\ cleanupPromise' = [ok |-> TRUE,
                                      response |-> [deletedFiles |-> 0,
                                                    skipped |-> TRUE]]
                /\ cacheFiles' = cacheFiles
                /\ lastCleanupTime' = lastCleanupTime ]_vars

\* a call 500 ms after a real cleanup was skipped although a file had expired
C25_SkippedWithExpiredFile ==
  /\ lastRealCleanup # 0
  /\ currentTime - lastRealCleanup = ClockStepMs
  /\ cleanupPromise = [ok |-> TRUE,
                       response |-> [deletedFiles |-> 0, skipped |-> TRUE]]
  /\ Expired(currentTime) # {}

----------------------------------------------------------------------------
(* Claim about the earlier variant (SpecEarlier) *)

\* C27: in the earlier variant a tick never starts a takePhoto/detectPose
\* while the detection started by a previous tick is still pending.
C27_EarlierTicksDoNotOverlap ==
  [][ EarlierTick => flights = << >> ]_vars

====
